---- MODULE Spec2Model ----
(***************************************************************************)
(* SonicVoice: the useAudio sampler hook, the App shell that starts it,    *)
(* and the per-frame particle animators that read it.                      *)
(*                                                                         *)
(* Numbers.  JavaScript numbers are modelled in fixed point:               *)
(*   - magnitudes are bytes 0..255; the value computed for one bin in the  *)
(*     synthesis loop is in thousandths of a magnitude unit;               *)
(*   - Math.random() and Math.sin() results are in thousandths;            *)
(*   - angles handed to Math.sin are in milliradians;                      *)
(*   - times (simulatedTimeRef, clock.elapsedTime, delta) are in           *)
(*     milliseconds;                                                       *)
(*   - particle coordinates are in thousandths of a world unit.            *)
(* A getAverage result is kept as the exact fraction num / den.            *)
(***************************************************************************)
EXTENDS Integers, Sequences, FiniteSets, Bags, TLC

VARIABLES
    \* ---- useAudio (src/hooks/useAudio.ts) ----
    ready,              \* useState(false)
    error,              \* useState<string | null>(null)
    isSimulated,        \* useState(false)
    audioContextRef,    \* useRef: TRUE when an AudioContext is stored
    analyserRef,        \* useRef: NoAnalyser or the AnalyserNode's settings
    dataArrayRef,       \* useRef: NullArray or the Uint8Array (index 0..len-1)
    sourceRef,          \* useRef: TRUE when a MediaStreamAudioSourceNode is stored
    simulatedTimeRef,   \* useRef<number>(0), milliseconds
    \* ---- App (src/App.tsx, src/unnamed/part_001, src/unnamed/part_002) ----
    appVariant,         \* "gated": App.tsx / part_001;  "loading": part_002
    started,            \* useState(false)
    isLoading,          \* useState(false) (part_002 only)
    rendered,           \* the state values captured by the closures of the last render
    calls,              \* handleStart invocations: their position and captured error
    \* ---- the scene (src/components/WarpTunnel.tsx, SceneContainer.tsx) ----
    animVariant,        \* "crystalA": CrystalUniverse with 10000 particles and
                        \* modes; "crystalB": CrystalUniverse with 8000
                        \* particles and an intro; "warp": WarpTunnel
    sceneMounted,       \* the scene layer is rendered (started && ready)
    meshRef,            \* meshRef.current is set
    elapsedTime,        \* state.clock.elapsedTime, milliseconds
    pointer,            \* state.pointer, thousandths
    particles,          \* the particle pool (useMemo)
    mousePos,           \* smoothed cursor position
    camera,             \* state.camera: rotation.z and fov
    tunnel,             \* WarpTunnel: mesh rotation.z and point-light intensity
    instances,          \* the instance buffer, and the writes of the last frame
    dummy,              \* the reusable THREE.Object3D (useMemo)
    color,              \* the reusable THREE.Color (useMemo), as h, s, l
    currentMode,        \* mode index of the last frame (-1: no mode read)
    frames,             \* frames animated so far
    \* ---- what the operations returned last ----
    startResult,        \* StartResult of the start() that settled last
    audioData           \* AudioData of the getAudioData() that returned last

hookVars == <<ready, error, isSimulated, audioContextRef, analyserRef,
              dataArrayRef, sourceRef, simulatedTimeRef>>
appVars == <<appVariant, started, isLoading, rendered, calls>>
sceneVars == <<animVariant, sceneMounted, meshRef, elapsedTime, pointer,
               particles, mousePos, camera, tunnel, instances, dummy, color,
               currentMode, frames>>
vars == <<hookVars, appVars, sceneVars, startResult, audioData>>

----------------------------------------------------------------------------
(* Bounds of the model *)

\* handleStart invocations (clicks / key presses on the Play button) explored
MaxClicks == 2
\* getAudioData() calls explored in simulated mode when the hook is driven
\* by the App and a reader (caps simulatedTimeRef there)
MaxReads == 2
\* getAudioData() calls explored in simulated mode on their own
MaxSimCalls == 200
\* particles in the pool (COUNT is 10000, 8000 and 2000 in the source)
PoolSize == 2
\* frames animated
MaxFrames == 2

----------------------------------------------------------------------------
(* Program constants *)

FFT_SIZE == 512                 \* analyser.fftSize
SMOOTHING_TENTHS == 8           \* analyser.smoothingTimeConstant = 0.8
SIM_BINS == 256                 \* new Uint8Array(256) in the catch branch
SIM_STEP_MS == 16               \* simulatedTimeRef.current += 0.016

\* error is null or the message of setError; the two messages of the catch
\* branch (Japanese in the source) are rendered in English
NoError == "null"
SimulatedError == "mic access unavailable - running in simulated mode"
StartErrorMessage == "mic access failed - running in demo mode"

NullArray == << >>
NoAnalyser == [node |-> FALSE, fftSize |-> 0, smoothingTenths |-> 0,
               frequencyBinCount |-> 0]

\* new Uint8Array(n): n zero bytes, indexed 0..n-1
NewUint8Array(n) == [i \in 0..(n - 1) |-> 0]

Length(arr) == Cardinality(DOMAIN arr)

\* ctx.createAnalyser() followed by the two assignments of start();
\* frequencyBinCount is half the transform size (Web Audio API)
CreateAnalyser ==
    [node |-> TRUE, fftSize |-> FFT_SIZE, smoothingTenths |-> SMOOTHING_TENTHS,
     frequencyBinCount |-> FFT_SIZE \div 2]

----------------------------------------------------------------------------
(* Math *)

Min(a, b) == IF a < b THEN a ELSE b
Max(a, b) == IF a > b THEN a ELSE b

\* Math.sin for an angle in milliradians (>= 0), result in thousandths.
\* Bhaskara's rational approximation on each half period (error < 0.002),
\* with pi = 3142 mrad; the intermediate products are scaled to stay in
\* 32 bits.
SinHalf(y) ==
    LET t == y * (3142 - y)
    IN  (4000 * (t \div 10)) \div ((5 * 3142 * 3142 - 4 * t) \div 40)

Sin(x) ==
    LET r == x % (2 * 3142)
    IN  IF r <= 3142 THEN SinHalf(r) ELSE 0 - SinHalf(r - 3142)

\* Storing a number into a Uint8Array element: the integer part modulo 256.
\* v is in thousandths and non-negative here.
ToUint8(v) == (v \div 1000) % 256

----------------------------------------------------------------------------
(* useAudio.getAudioData: the synthesis loop and the range average *)

\* The inputs of one getAudioData() call that the code does not decide:
\* Math.random() draws (thousandths, in [0,1)) and the bytes the analyser
\* writes.  A call draws one value for the even bins and one for the odd.
RandomDraws == <<0, 999>>
DrawSet == {RandomDraws[k] : k \in 1..Len(RandomDraws)}
Noise(i, lo, hi) == IF i % 2 = 0 THEN lo ELSE hi

\* analyser.getByteFrequencyData(array): bytes base, base+slope, ... (mod 256);
\* silence, full scale, and the ramp 10, 20, 30, ...
LiveFrames == {<<0, 0>>, <<255, 0>>, <<10, 10>>}
GetByteFrequencyData(arr, base, slope) ==
    [i \in DOMAIN arr |-> (base + slope * i) % 256]

\* a synthesis whose bass wave has a tenth of its amplitude
BandValueQuietBass(i, time, r) ==
    LET bassWave == (Sin(time * 2 + i * 20) * 5) \div 10 + 500
        midWave == (Sin(time * 4 + i * 100) * 3) \div 10 + 500
        highWave == (Sin(time * 8 + i * 300) * 2) \div 10 + 300
    IN  IF i < 20 THEN bassWave * 20 + r * 30
        ELSE IF i < 100 THEN midWave * 150 + r * 40
        ELSE highWave * 100 + r * 20

\* value of bin i before the beat is added (thousandths)
BandValue(i, time, r) ==
    LET bassWave == (Sin(time * 2 + i * 20) * 5) \div 10 + 500
        midWave == (Sin(time * 4 + i * 100) * 3) \div 10 + 500
        highWave == (Sin(time * 8 + i * 300) * 2) \div 10 + 300
    IN  IF i < 20 THEN bassWave * 200 + r * 30
        ELSE IF i < 100 THEN midWave * 150 + r * 40
        ELSE highWave * 100 + r * 20

Beat(time) == IF Sin(time * 3) > 700 THEN 50 * 1000 ELSE 0

\* the sum stored without Math.min / Math.max
Unclamped(v) == v

\* Math.min(255, Math.max(0, value + beat))
Clamp(v) == Min(255 * 1000, Max(0, v))

\* dataArrayRef.current[i] after the loop body for bin i; beat is Beat(time),
\* which the loop recomputes for every bin
SimulatedBin(i, time, r, beat) == ToUint8(Clamp(BandValue(i, time, r) + beat))

SynthesizeWith(arr, time, lo, hi, beat) ==
    [i \in DOMAIN arr |-> SimulatedBin(i, time, Noise(i, lo, hi), beat)]

\* for (let i = 0; i < dataArrayRef.current.length; i++) { ... }
Synthesize(arr, time, lo, hi) == SynthesizeWith(arr, time, lo, hi, Beat(time))

\* for (let i = startIndex; i < endIndex; i++) sum += dataArrayRef.current[i]
\* The additions (of integers, exact in a double) are grouped by halves of
\* the index range, which bounds the depth of the evaluation.
RECURSIVE SumLoop(_, _, _)
SumLoop(arr, startIndex, endIndex) ==
    IF endIndex - startIndex <= 0 THEN 0
    ELSE IF endIndex - startIndex = 1 THEN arr[startIndex]
    ELSE SumLoop(arr, startIndex, (startIndex + endIndex) \div 2)
         + SumLoop(arr, (startIndex + endIndex) \div 2, endIndex)

Zero == [num |-> 0, den |-> 1]

\* a mean that divides by one less than the number of entries summed
MeanOfShortCount(arr, startIndex, endIndex) ==
    LET count == endIndex - startIndex - 1
    IN  IF count <= 0 THEN Zero
        ELSE [num |-> SumLoop(arr, startIndex, endIndex), den |-> count]

\* a mean that counts the range as if endIndex were included
MeanOfLongCount(arr, startIndex, endIndex) ==
    LET count == endIndex - startIndex + 1
    IN  IF count <= 1 THEN Zero
        ELSE [num |-> SumLoop(arr, startIndex, endIndex), den |-> count]

\* the getAverage closure of the simulated and of the live branch
MeanOf(arr, startIndex, endIndex) ==
    LET count == endIndex - startIndex
    IN  IF count <= 0 THEN Zero
        ELSE [num |-> SumLoop(arr, startIndex, endIndex), den |-> count]

\* the getAverage of the AudioData returned last, applied now
getAverage(startIndex, endIndex) ==
    IF audioData.getAverage = "mean"
    THEN MeanOf(dataArrayRef, startIndex, endIndex)
    ELSE Zero

\* the frequency array of the AudioData returned last
Frequency ==
    IF audioData.frequency = "dataArrayRef" THEN dataArrayRef
    ELSE NewUint8Array(0)

NoAudioData == [branch |-> "none", frequency |-> "empty",
                analyser |-> NoAnalyser, getAverage |-> "zero"]

\* a getAudioData() that tests the analyser before the isSimulated flag
BranchAnalyserFirst ==
    IF analyserRef.node /\ dataArrayRef # NullArray THEN "live"
    ELSE IF rendered.isSimulated /\ dataArrayRef # NullArray THEN "simulated"
    ELSE "notReady"

\* the branch a getAudioData() call through the closure of the last render
\* takes
Branch ==
    IF rendered.isSimulated /\ dataArrayRef # NullArray THEN "simulated"
    ELSE IF ~analyserRef.node \/ dataArrayRef = NullArray THEN "notReady"
    ELSE "live"

\* what the simulated branch returns
SimulatedData == [branch |-> "simulated", frequency |-> "dataArrayRef",
                  analyser |-> NoAnalyser, getAverage |-> "mean"]

\* a not-ready result that hands out the averaging closure
NotReadyDataWithMean == [branch |-> "notReady", frequency |-> "empty",
                         analyser |-> NoAnalyser, getAverage |-> "mean"]

\* what the call returns when the analyser or the array is missing
NotReadyData == [branch |-> "notReady", frequency |-> "empty",
                 analyser |-> NoAnalyser, getAverage |-> "zero"]

\* what the live branch returns
LiveData == [branch |-> "live", frequency |-> "dataArrayRef",
             analyser |-> analyserRef, getAverage |-> "mean"]

\* a getAudioData() that advances the simulated time in the live branch too
getAudioDataAdvancingLive(lo, hi, base, slope) ==
    IF Branch = "simulated"
    THEN /\ simulatedTimeRef' = simulatedTimeRef + SIM_STEP_MS
         /\ dataArrayRef' = Synthesize(dataArrayRef, simulatedTimeRef', lo, hi)
         /\ audioData' = SimulatedData
    ELSE IF Branch = "notReady"
    THEN /\ audioData' = NotReadyData
         /\ UNCHANGED <<dataArrayRef, simulatedTimeRef>>
    ELSE /\ dataArrayRef' = GetByteFrequencyData(dataArrayRef, base, slope)
         /\ audioData' = LiveData
         /\ simulatedTimeRef' = simulatedTimeRef + SIM_STEP_MS

\* One getAudioData() call through the closure of the last render.  lo and hi
\* are read by the simulated branch only, base and slope by the live branch.
getAudioData(lo, hi, base, slope) ==
    IF Branch = "simulated"
    THEN /\ simulatedTimeRef' = simulatedTimeRef + SIM_STEP_MS
         /\ dataArrayRef' = Synthesize(dataArrayRef, simulatedTimeRef', lo, hi)
         /\ audioData' = SimulatedData
    ELSE IF Branch = "notReady"
    THEN /\ audioData' = NotReadyData
         /\ UNCHANGED <<dataArrayRef, simulatedTimeRef>>
    ELSE /\ dataArrayRef' = GetByteFrequencyData(dataArrayRef, base, slope)
         /\ audioData' = LiveData
         /\ UNCHANGED simulatedTimeRef

\* The inputs a call reads: the draws in the simulated branch, the analyser's
\* bytes in the live branch, nothing before start.
AudioInputs ==
    IF Branch = "simulated"
    THEN {<<lo, hi, 0, 0>> : lo \in DrawSet, hi \in DrawSet}
    ELSE IF Branch = "live"
    THEN {<<0, 0, f[1], f[2]>> : f \in LiveFrames}
    ELSE {<<0, 0, 0, 0>>}

----------------------------------------------------------------------------
(* useAudio.start and App.handleStart *)

\* How the awaited part of start() ends: the capture request is granted and
\* setup completes, the request is rejected, or a later step of the try
\* block throws.
Outcomes == {"granted", "denied", "contextThrows", "analyserThrows", "sourceThrows"}

Snapshot == [ready |-> ready, error |-> error, isSimulated |-> isSimulated,
             started |-> started, isLoading |-> isLoading]

NoResult == [success |-> FALSE, errorMessage |-> NoError]

\* a Play button that takes clicks while it is rendered disabled
ClickPlayWhileDisabled ==
    /\ Len(calls) < MaxClicks
    /\ isLoading' = IF appVariant = "loading" THEN TRUE ELSE isLoading
    /\ rendered' = IF appVariant = "loading"
                   THEN [Snapshot EXCEPT !.isLoading = TRUE]
                   ELSE rendered
    /\ calls' = Append(calls, [phase |-> "media", error |-> rendered.error,
                               result |-> NoResult])
    /\ UNCHANGED <<hookVars, appVariant, started, sceneVars, startResult, audioData>>

\* handleStart up to its first suspension: (part_002) setIsLoading(true),
\* then start() up to `await getUserMedia`.  The button is not clickable
\* while it is rendered disabled.  The state update of a click handler is
\* rendered before the next event is handled.
ClickPlay ==
    /\ Len(calls) < MaxClicks
    /\ appVariant = "loading" => ~rendered.isLoading
    /\ isLoading' = IF appVariant = "loading" THEN TRUE ELSE isLoading
    /\ rendered' = IF appVariant = "loading"
                   THEN [Snapshot EXCEPT !.isLoading = TRUE]
                   ELSE rendered
    /\ calls' = Append(calls, [phase |-> "media", error |-> rendered.error,
                               result |-> NoResult])
    /\ UNCHANGED <<hookVars, appVariant, started, sceneVars, startResult, audioData>>

\* a start() whose catch branch does not call setIsSimulated(true)
SettledWithoutFlag(outcome, context, analyser, source) ==
    IF outcome = "granted"
    THEN [audioContextRef |-> TRUE,
          analyserRef |-> CreateAnalyser,
          sourceRef |-> TRUE,
          dataArrayRef |-> NewUint8Array(CreateAnalyser.frequencyBinCount),
          ready |-> TRUE,
          error |-> NoError,
          isSimulated |-> FALSE,
          result |-> [success |-> TRUE, errorMessage |-> NoError]]
    ELSE [audioContextRef |-> (context \/ outcome \in {"analyserThrows", "sourceThrows"}),
          analyserRef |-> IF outcome = "sourceThrows" THEN CreateAnalyser ELSE analyser,
          sourceRef |-> source,
          dataArrayRef |-> NewUint8Array(SIM_BINS),
          ready |-> TRUE,
          error |-> SimulatedError,
          isSimulated |-> isSimulated,
          result |-> [success |-> FALSE, errorMessage |-> StartErrorMessage]]

\* The refs, the state and the return value start() leaves when its awaited
\* part ends with `outcome`, given the refs it found.
Settled(outcome, context, analyser, source) ==
    IF outcome = "granted"
    THEN [audioContextRef |-> TRUE,
          analyserRef |-> CreateAnalyser,
          sourceRef |-> TRUE,
          dataArrayRef |-> NewUint8Array(CreateAnalyser.frequencyBinCount),
          ready |-> TRUE,
          error |-> NoError,
          isSimulated |-> FALSE,
          result |-> [success |-> TRUE, errorMessage |-> NoError]]
    ELSE [audioContextRef |-> (context \/ outcome \in {"analyserThrows", "sourceThrows"}),
          analyserRef |-> IF outcome = "sourceThrows" THEN CreateAnalyser ELSE analyser,
          sourceRef |-> source,
          dataArrayRef |-> NewUint8Array(SIM_BINS),
          ready |-> TRUE,
          error |-> SimulatedError,
          isSimulated |-> TRUE,
          result |-> [success |-> FALSE, errorMessage |-> StartErrorMessage]]

\* the hook's refs and state become those of h
Leave(h) ==
    /\ audioContextRef' = h.audioContextRef
    /\ analyserRef' = h.analyserRef
    /\ sourceRef' = h.sourceRef
    /\ dataArrayRef' = h.dataArrayRef
    /\ ready' = h.ready
    /\ error' = h.error
    /\ isSimulated' = h.isSimulated
    /\ startResult' = h.result

\* start() from the resolution of getUserMedia to its return
StartSettle(c, outcome) ==
    /\ calls[c].phase = "media"
    /\ Leave(Settled(outcome, audioContextRef, analyserRef, sourceRef))
    /\ calls' = [calls EXCEPT ![c].phase = "resume", ![c].result = startResult']
    /\ UNCHANGED <<simulatedTimeRef, appVariant, started, isLoading, rendered,
                   sceneVars, audioData>>

\* a handleStart that reads the hook's current error after the await
\* instead of the value its closure captured
HandleStartResumeCurrentError(c) ==
    /\ calls[c].phase = "resume"
    /\ calls' = [calls EXCEPT ![c].phase = "done"]
    /\ IF appVariant = "loading"
       THEN /\ started' = TRUE
            /\ isLoading' = FALSE
       ELSE /\ started' = (started \/ error = NoError)
            /\ isLoading' = isLoading
    /\ UNCHANGED <<hookVars, appVariant, rendered, sceneVars, startResult, audioData>>

\* a handleStart that calls start() again when it returned no success
HandleStartResumeRetrying(c) ==
    /\ calls[c].phase = "resume"
    /\ calls' = [calls EXCEPT ![c].phase = IF calls[c].result.success
                                           THEN "done" ELSE "media"]
    /\ IF appVariant = "loading"
       THEN /\ started' = TRUE
            /\ isLoading' = FALSE
       ELSE /\ started' = (started \/ calls[c].error = NoError)
            /\ isLoading' = isLoading
    /\ UNCHANGED <<hookVars, appVariant, rendered, sceneVars, startResult, audioData>>

\* handleStart after `await start()`
HandleStartResume(c) ==
    /\ calls[c].phase = "resume"
    /\ calls' = [calls EXCEPT ![c].phase = "done"]
    /\ IF appVariant = "loading"
       THEN /\ started' = TRUE
            /\ isLoading' = FALSE
       ELSE /\ started' = (started \/ calls[c].error = NoError)
            /\ isLoading' = isLoading
    /\ UNCHANGED <<hookVars, appVariant, rendered, sceneVars, startResult, audioData>>

\* React re-renders with the pending state; every closure is re-created,
\* and the scene layer is rendered when started && ready
Render ==
    /\ rendered # Snapshot
    /\ rendered' = Snapshot
    /\ sceneMounted' = (started /\ ready)
    /\ UNCHANGED <<hookVars, appVariant, started, isLoading, calls,
                   animVariant, meshRef, elapsedTime, pointer, particles,
                   mousePos, camera, tunnel, instances, dummy, color,
                   currentMode, frames,
                   startResult, audioData>>

\* a reader calls the getAudioData of the last render; the simulated
\* branch is explored for maxCalls calls
ReadAudioUpTo(maxCalls) ==
    /\ Branch = "simulated" => simulatedTimeRef < maxCalls * SIM_STEP_MS
    /\ \E in \in AudioInputs : getAudioData(in[1], in[2], in[3], in[4])
    /\ UNCHANGED <<ready, error, isSimulated, audioContextRef, analyserRef,
                   sourceRef, appVars, sceneVars, startResult>>

ReadAudio == ReadAudioUpTo(MaxReads)

----------------------------------------------------------------------------
(* The particle pools of the three animators *)

\* loop bound and instance count of every animator, scaled to the pool bound
COUNT == PoolSize

TUNNEL_LENGTH_A == 400      \* CrystalUniverse, 10000-particle variant
TUNNEL_RADIUS_A == 20
TUNNEL_LENGTH_B == 300      \* CrystalUniverse, 8000-particle variant
TUNNEL_RADIUS_B == 15
RADIUS == 15                \* WarpTunnel
LENGTH == 100
CYCLE_DURATION == 20        \* seconds per mode
NUM_MODES == 3
INTRO_DURATION == 4         \* seconds of intro
FRAME_STEP_MS == 16         \* the constant 0.016 of the CrystalUniverse z step
INITIAL_FOV == 90           \* camera={{ fov: 90 }}

\* Math.cos, and Math.random() * Math.PI * 2 in milliradians
Cos(x) == Sin(x + 1571)
RandomAngle(r) == (r * 6283) \div 1000

\* The Math.random() draws of pool creation: particle i takes the i-th draw
\* of a stream for its position attributes and of a stream for its speed
\* attributes; a stream cycles through RandomDraws from a chosen offset.
Draw(offset, k) == RandomDraws[((offset + k) % Len(RandomDraws)) + 1]
StreamOffsets == 0..(Len(RandomDraws) - 1)

NewParticleA(i, rp, rs) ==
    [angle |-> RandomAngle(rp),
     radiusBase |-> TUNNEL_RADIUS_A * (400 + (rs * 15) \div 10),
     z |-> rp * TUNNEL_LENGTH_A - TUNNEL_LENGTH_A * 500,
     speedOffset |-> 500 + (rs * 15) \div 10,
     rotationSpeed |-> (rp - 500) * 2,
     id |-> i,
     randomColor |-> rs]

NewParticleB(i, rp, rs) ==
    [theta |-> RandomAngle(rp),
     r |-> TUNNEL_RADIUS_B * (300 + (rs * 7) \div 10),
     z |-> rp * TUNNEL_LENGTH_B - TUNNEL_LENGTH_B * 500,
     speedSpeed |-> 500 + rs,
     id |-> i,
     noiseOffset |-> rs * 100]

NewParticleW(i, rp, rs) ==
    LET theta == RandomAngle(rp)
        r == rs * RADIUS + 2000
        z == (rp - 500) * LENGTH * 2
    IN  [x |-> (r * Cos(theta)) \div 1000,
         y |-> (r * Sin(theta)) \div 1000,
         z |-> z,
         originalZ |-> z,
         speedMod |-> 500 + rs \div 2,
         colorPhase |-> rs]

NewParticle(variant, i, rp, rs) ==
    IF variant = "crystalA" THEN NewParticleA(i, rp, rs)
    ELSE IF variant = "crystalB" THEN NewParticleB(i, rp, rs)
    ELSE NewParticleW(i, rp, rs)

NewPool(variant, op, os) ==
    [k \in 1..COUNT |-> NewParticle(variant, k - 1, Draw(op, k - 1), Draw(os, k - 1))]

NewInstances ==
    [k \in 1..COUNT |-> [matrixWrites |-> 0, colorWrites |-> 0, z |-> 0,
                         matrix |-> [position |-> <<0, 0, 0>>,
                                     rotation |-> [x |-> 0, y |-> 0, z |-> 0,
                                                   lookAt |-> << >>],
                                     scale |-> <<1000, 1000, 1000>>],
                         color |-> <<0, 0, 1000>>]]

----------------------------------------------------------------------------
(* One frame *)

\* getAverage(a, b) / 255, thousandths
Normalized(avg) == (avg.num * 1000) \div (avg.den * 255)

\* getAverage of the AudioData this frame's getAudioData() returned
FrameAverage(startIndex, endIndex) ==
    IF audioData'.getAverage = "mean"
    THEN MeanOf(dataArrayRef', startIndex, endIndex)
    ELSE Zero

\* a mode that steps to the next one on every frame
ModeIndexAdvancing(time) == (currentMode + 1) % NUM_MODES

\* Math.floor(time / cycleDuration) % 3
ModeIndex(time) == (time \div (CYCLE_DURATION * 1000)) % NUM_MODES

\* a speed with no base term in DIAMOND_CAVE: nothing moves in silence
SpeedAStalling(mode, bass, mids) ==
    IF mode = 2 THEN 30 * 1000 + mids * 30
    ELSE IF mode = 1 THEN bass * 10
    ELSE IF mode = 0 THEN 60 * 1000 + bass * 50
    ELSE 20 * 1000

\* CrystalUniverse (10000): speed by mode, thousandths
SpeedA(mode, bass, mids) ==
    IF mode = 2 THEN 30 * 1000 + mids * 30
    ELSE IF mode = 1 THEN 15 * 1000 + bass * 10
    ELSE IF mode = 0 THEN 60 * 1000 + bass * 50
    ELSE 20 * 1000

\* an intro speed curve that is followed past the end of the intro
BaseSpeedBCurveOnly(time, bass) ==
    (150 * (INTRO_DURATION * 1000 - time)) \div INTRO_DURATION + 20 * 1000

\* CrystalUniverse (8000): intro speed curve, then cruise
BaseSpeedB(time, bass) ==
    IF time < INTRO_DURATION * 1000
    THEN (150 * (INTRO_DURATION * 1000 - time)) \div INTRO_DURATION + 20 * 1000
    ELSE 20 * 1000 + bass * 30

\* WarpTunnel: intensity and speed
Intensity(bass, mids) == (Min(bass, 1000) * 8 + Min(mids, 1000) * 2) \div 10
BaseSpeedW(intensity) == 20 * 1000 + intensity * 150

\* an update that wraps only past the whole tunnel length
AdvanceWrapPastLength(z, speed, multiplier, dt, half, length) ==
    LET moved == z + (((speed * multiplier) \div 1000) * dt) \div 1000
    IN  IF moved > length THEN moved - length ELSE moved

\* p.z += speed * multiplier * dt;  if (p.z > half) p.z -= length
Advance(z, speed, multiplier, dt, half, length) ==
    LET moved == z + (((speed * multiplier) \div 1000) * dt) \div 1000
    IN  IF moved > half THEN moved - length ELSE moved

\* the z of particle p after this frame's update
MoveZ(variant, p, c) ==
    IF variant = "crystalA"
    THEN Advance(p.z, SpeedA(c.mode, c.bass, c.mids), p.speedOffset,
                 FRAME_STEP_MS, TUNNEL_LENGTH_A * 500, TUNNEL_LENGTH_A * 1000)
    ELSE IF variant = "crystalB"
    THEN Advance(p.z, BaseSpeedB(c.time, c.bass), p.speedSpeed,
                 FRAME_STEP_MS, TUNNEL_LENGTH_B * 500, TUNNEL_LENGTH_B * 1000)
    ELSE Advance(p.z, BaseSpeedW(c.intensity), p.speedMod,
                 c.delta, LENGTH * 1000, LENGTH * 2 * 1000)

----------------------------------------------------------------------------
(* The scratch objects of the loop: `dummy` (a THREE.Object3D) and `color` *)

\* camera={{ position: [0, 0, 5] }}
CameraPosition == <<0, 0, 5000>>

\* new THREE.Object3D(): position 0, rotation 0, scale 1
NewObject3D ==
    [position |-> <<0, 0, 0>>,
     rotation |-> [x |-> 0, y |-> 0, z |-> 0, lookAt |-> << >>],
     scale |-> <<1000, 1000, 1000>>]

\* new THREE.Color(): white
NewColor == <<0, 0, 1000>>

\* a position update that adds (x, y, z) to the position the object has
AddPosition(d, x, y, z) ==
    [d EXCEPT !.position = <<@[1] + x, @[2] + y, @[3] + z>>]

\* dummy.position.set(x, y, z)
SetPosition(d, x, y, z) == [d EXCEPT !.position = <<x, y, z>>]

\* dummy.scale.set(sx, sy, sz)
SetScale(d, sx, sy, sz) == [d EXCEPT !.scale = <<sx, sy, sz>>]

\* dummy.scale.multiplyScalar(f)
MultiplyScalar(d, f) ==
    [d EXCEPT !.scale = <<(@[1] * f) \div 1000, (@[2] * f) \div 1000,
                          (@[3] * f) \div 1000>>]

\* a rotation update that sets rotation.z and leaves the rest as it is
SetRotationZ(d, x, y, z) == [d EXCEPT !.rotation.z = z]

\* dummy.rotation.x = x; dummy.rotation.z = z; dummy.rotation.y = y
SetRotation(d, x, y, z) ==
    [d EXCEPT !.rotation = [x |-> x, y |-> y, z |-> z, lookAt |-> << >>]]

\* dummy.rotation.x = x
SetRotationX(d, x) == [d EXCEPT !.rotation.x = x, !.rotation.lookAt = << >>]

\* dummy.lookAt(target): the orientation that faces target from the position
\* the object has at the call
LookAt(d, target) ==
    [d EXCEPT !.rotation = [x |-> 0, y |-> 0, z |-> 0,
                            lookAt |-> <<target, d.position>>]]

\* position.x += ax; position.y += ay
Nudge(d, ax, ay) ==
    [d EXCEPT !.position = <<@[1] + ax, @[2] + ay, @[3]>>]

\* color.setHSL(h, s, l): h modulo 1, s and l clamped to [0, 1]
SetHSL(h, s, l) == <<h % 1000, Min(1000, Max(0, s)), Min(1000, Max(0, l))>>

\* Math.sqrt, rounded down: the root of n between lo and hi
RECURSIVE SqrtBetween(_, _, _)
SqrtBetween(n, lo, hi) ==
    IF hi - lo <= 1 THEN lo
    ELSE LET mid == (lo + hi) \div 2
         IN  IF mid * mid <= n THEN SqrtBetween(n, mid, hi)
             ELSE SqrtBetween(n, lo, mid)

\* Math.sqrt(dx*dx + dy*dy) in hundredths, for dx, dy in thousandths and a
\* distance below 8
Dist(dx, dy) ==
    SqrtBetween((dx \div 10) * (dx \div 10) + (dy \div 10) * (dy \div 10), 0, 801)

\* dist < 8
Near(dx, dy) ==
    /\ dx > -8000 /\ dx < 8000 /\ dy > -8000 /\ dy < 8000
    /\ (dx \div 10) * (dx \div 10) + (dy \div 10) * (dy \div 10) < 800 * 800

\* the scratch pair the loop works on
Scratch(d, col) == [dummy |-> d, color |-> col]

----------------------------------------------------------------------------
(* The loop body of the 10000-particle CrystalUniverse *)

\* the interactive force field: grow, turn into light, repel
ForceFieldA(sc, dx, dy, force, c) ==
    Scratch(Nudge(MultiplyScalar(sc.dummy, 1000 + force * 2),
                  (dx * force) \div 2000, (dy * force) \div 2000),
            SetHSL(c.spark, 1000, 800))

\* mode-specific styling of dummy and color
StyleA(sc, p, z, c) ==
    IF c.mode = 0
    THEN Scratch(SetScale(SetRotation(sc.dummy, 1571, 0, p.angle),
                          1000, 10000 + c.bass * 20, 1000),
                 SetHSL(600 + (Sin(z \div 20 + c.time) * 15) \div 100, 900,
                        400 + (c.highs * 6) \div 10))
    ELSE IF c.mode = 1
    THEN Scratch(SetScale(SetRotation(sc.dummy,
                                      (c.time * p.rotationSpeed) \div 1000,
                                      (c.time * p.rotationSpeed) \div 1000,
                                      (c.time * p.rotationSpeed) \div 1000),
                          1000 + c.bass * 3, (1000 + c.bass * 3) * 4,
                          1000 + c.bass * 3),
                 IF c.spark < 20 + c.highs \div 10
                 THEN SetHSL(c.spark, 1000, 900)
                 ELSE SetHSL(550, 400,
                             100 + (c.bass * 4) \div 10 + (c.highs * 5) \div 10))
    ELSE Scratch(SetScale(LookAt(sc.dummy, CameraPosition), 2000, 2000, 2000),
                 SetHSL((p.angle * 1000) \div 6283 + c.time \div 10 + z \div 100,
                        1000, 500 + c.mids \div 2))

\* position, styling and force field for a particle at (x, y, z)
PlaceA(sc, p, x, y, z, c) ==
    LET styled == StyleA(Scratch(SetPosition(sc.dummy, x, y, z), sc.color), p, z, c)
        dx == x - c.mouse.x \div 5
        dy == y - c.mouse.y \div 5
    IN  IF Near(dx, dy)
        THEN ForceFieldA(styled, dx, dy, ((800 - Dist(dx, dy)) * 1000) \div 800, c)
        ELSE styled

\* tunnel shaping: the curve offsets and the audio-reactive radius
ShapeA(sc, p, z, zFactor, r, c) ==
    PlaceA(sc, p,
           Sin(c.time \div 2 + z \div 100) * 5
               + (c.mouse.x * zFactor * 2) \div 1000 + (Cos(p.angle) * r) \div 1000,
           Cos((c.time * 3) \div 10 + z \div 100) * 5
               + (c.mouse.y * zFactor * 2) \div 1000 + (Sin(p.angle) * r) \div 1000,
           z, c)

BodyA(sc, p, z, c) ==
    ShapeA(sc, p, z, (z + TUNNEL_LENGTH_A * 500) \div TUNNEL_LENGTH_A,
           p.radiusBase + (c.bass * 5 * Sin(z \div 10 + c.time * 3)) \div 1000, c)

----------------------------------------------------------------------------
(* The loop body of the 8000-particle CrystalUniverse *)

\* Math.min((bass + mids + highs) / 3 * 2, 1)
Volume(c) == Min(((c.bass + c.mids + c.highs) * 2) \div 3, 1000)

\* 5. COLOR
ColorB(p, z, c) ==
    IF c.time < INTRO_DURATION * 1000
    THEN SetHSL(600, 800, 500 + c.spark \div 2)
    ELSE IF c.spark < c.highs \div 100
    THEN SetHSL(c.spark, 1000, 1000)
    ELSE SetHSL(((c.time \div 20) % 1000)
                    + Sin(p.theta * 3 + z \div 20 + c.time \div 5) \div 10,
                800 + c.highs \div 5,
                400 + (c.highs * 6) \div 10 + Volume(c) \div 5)

\* position with the parallax follow, rotation, scale and colour
PlaceB(sc, p, x, y, z, c) ==
    Scratch(SetScale(SetRotationX(SetPosition(sc.dummy,
                                              x - (x - c.mouse.x) \div 10,
                                              y - (y - c.mouse.y) \div 10, z),
                                  1571),
                     1000,
                     IF c.time < INTRO_DURATION * 1000 THEN 10 * 1000
                     ELSE 1000 + c.bass * 5 + Volume(c) * 2,
                     1000),
            ColorB(p, z, c))

ShapeB(sc, p, z, r, c) ==
    PlaceB(sc, p,
           Sin(c.time \div 2 + z \div 50) * 5 + (Cos(p.theta) * r) \div 1000,
           Cos((c.time * 3) \div 10 + z \div 50) * 5 + (Sin(p.theta) * r) \div 1000,
           z, c)

BodyB(sc, p, z, c) ==
    ShapeB(sc, p, z,
           p.r + (Sin(z \div 10 + c.time * 2) * c.bass * 2) \div 1000, c)

----------------------------------------------------------------------------
(* The loop body of WarpTunnel *)

\* 0.6 + Math.sin(time * 0.2) * 0.1 - intensity * 0.2
HueBaseW(c) == 600 + Sin(c.time \div 5) \div 10 - c.intensity \div 5

BodyW(sc, p, z, c) ==
    Scratch(SetScale(SetPosition(sc.dummy, p.x, p.y, z),
                     1000 + c.highs \div 2, 1000 + c.highs \div 2,
                     ((1000 + c.intensity * 20) * p.speedMod) \div 1000),
            SetHSL((HueBaseW(c) + p.colorPhase \div 10) % 1000, 1000,
                   500 + (c.intensity * 4) \div 10))

----------------------------------------------------------------------------
(* The particle loop *)

\* dummy and color after the iteration for particle p, moved to z
Body(variant, sc, p, z, c) ==
    IF variant = "crystalA" THEN BodyA(sc, p, z, c)
    ELSE IF variant = "crystalB" THEN BodyB(sc, p, z, c)
    ELSE BodyW(sc, p, z, c)

\* a loop body that sets the matrix of slot i and leaves its colour
WriteInstanceMatrixOnly(inst, i, sc) ==
    [inst EXCEPT ![i + 1] = [matrixWrites |-> @.matrixWrites + 1,
                             colorWrites |-> @.colorWrites,
                             z |-> sc.dummy.position[3],
                             matrix |-> sc.dummy,
                             color |-> @.color]]

\* dummy.updateMatrix(); setMatrixAt(i, dummy.matrix); setColorAt(i, color)
WriteInstance(inst, i, sc) ==
    [inst EXCEPT ![i + 1] = [matrixWrites |-> @.matrixWrites + 1,
                             colorWrites |-> @.colorWrites + 1,
                             z |-> sc.dummy.position[3],
                             matrix |-> sc.dummy,
                             color |-> sc.color]]

\* the pool, the buffer and the scratch objects the loop works on
LoopState(pool, inst, sc) == [pool |-> pool, inst |-> inst, scratch |-> sc]

\* a store that writes the moved record of the first particle into
\* particle i
StoreFirstRecord(i, st, z, sc) ==
    LoopState([st.pool EXCEPT ![i + 1] = [st.pool[1] EXCEPT !.z = z]],
              WriteInstance(st.inst, i, sc), sc)

\* p.z is stored, and the scratch objects are written into slot i
Store(i, st, z, sc) ==
    LoopState([st.pool EXCEPT ![i + 1].z = z], WriteInstance(st.inst, i, sc), sc)

\* the scratch objects are set for particle i moved to z, then stored
Iterate(i, variant, st, z, c) ==
    Store(i, st, z, Body(variant, st.scratch, st.pool[i + 1], z, c))

\* one iteration of the loop, for particle i
LoopBody(i, variant, st, c) ==
    Iterate(i, variant, st, MoveZ(variant, st.pool[i + 1], c), c)

\* for (let i = 0; i < COUNT; i++) { ... }: the loop state after the
\* iterations from i on
RECURSIVE ParticleLoop(_, _, _, _)
ParticleLoop(i, variant, st, c) ==
    IF i < COUNT
    THEN ParticleLoop(i + 1, variant, LoopBody(i, variant, st, c), c)
    ELSE st

\* the write counters of a new frame
BeginFrame(inst) ==
    [k \in DOMAIN inst |-> [inst[k] EXCEPT !.matrixWrites = 0, !.colorWrites = 0]]

\* THREE.MathUtils.lerp(a, b, t) and Vector3.lerp, t in hundredths
Lerp(a, b, t) == a + ((b - a) * t) \div 100

\* the clock advance between two frames: the CrystalUniverse frames read
\* clock.elapsedTime only; the WarpTunnel frame also moves by the frame delta
ClockJumps == {16, 20000}
FrameDeltas == {16, 1000}
ClockSteps == IF animVariant = "warp" THEN FrameDeltas ELSE ClockJumps

Pointers == {[x |-> 0, y |-> 0], [x |-> 1000, y |-> -500]}

\* the particle loop's results are stored
StoreLoop(out) ==
    /\ particles' = out.pool
    /\ instances' = out.inst
    /\ dummy' = out.scratch.dummy
    /\ color' = out.scratch.color

\* mousePos after this frame's smoothing
SmoothedMouse ==
    IF animVariant = "crystalA"
    THEN [x |-> Lerp(mousePos.x, pointer.x * 30, 5),
          y |-> Lerp(mousePos.y, pointer.y * 30, 5)]
    ELSE IF animVariant = "crystalB"
    THEN [x |-> Lerp(mousePos.x, pointer.x * 5, 5),
          y |-> Lerp(mousePos.y, pointer.y * 5, 5)]
    ELSE mousePos

\* the color object the loop starts with: WarpTunnel creates one per frame
FrameColor == IF animVariant = "warp" THEN NewColor ELSE color

\* the shared inputs of the loop
FrameContext(d, time, bands, intensity, mode, spark) ==
    [time |-> time, delta |-> d, bass |-> bands[1], mids |-> bands[2],
     highs |-> bands[3], intensity |-> intensity, mode |-> mode,
     mouse |-> SmoothedMouse, spark |-> spark]

\* the useFrame callback from the band extraction on
AnimateWith(d, time, bands, intensity, mode, spark) ==
    /\ StoreLoop(ParticleLoop(0, animVariant,
                              LoopState(particles, BeginFrame(instances),
                                        Scratch(dummy, FrameColor)),
                              FrameContext(d, time, bands, intensity, mode, spark)))
    /\ currentMode' = IF animVariant = "crystalA" THEN mode ELSE currentMode
    /\ mousePos' = SmoothedMouse
    /\ camera' =
          IF animVariant = "crystalA"
          THEN [rotationZ |-> Lerp(camera.rotationZ, 0 - (pointer.x * 2) \div 10, 5),
                fov |-> Lerp(camera.fov, INITIAL_FOV * 1000 + bands[1] * 10, 10)]
          ELSE camera
    /\ tunnel' =
          IF animVariant = "warp"
          THEN [rotationZ |-> tunnel.rotationZ + (d * (1000 + intensity)) \div 10000,
                lightIntensity |-> 1000 + intensity * 5]
          ELSE tunnel

\* the clock is read, and the Math.random() draws of the loop are made
AnimateBands(bands) ==
    \E d \in ClockSteps, spark \in DrawSet :
        /\ elapsedTime' = elapsedTime + d
        /\ AnimateWith(d, elapsedTime + d, bands, Intensity(bands[1], bands[2]),
                       ModeIndex(elapsedTime + d), spark)

\* the body of the useFrame callback after the meshRef guard
Animate(in) ==
    /\ getAudioData(in[1], in[2], in[3], in[4])
    /\ frames' = frames + 1
    /\ AnimateBands(<<Normalized(FrameAverage(0, 10)),
                      Normalized(FrameAverage(10, 100)),
                      Normalized(FrameAverage(100, 200))>>)
    /\ UNCHANGED <<ready, error, isSimulated, audioContextRef, analyserRef,
                   sourceRef, appVars, animVariant, sceneMounted, meshRef,
                   pointer, startResult>>

\* a useFrame callback without the meshRef guard
FrameUnguarded ==
    /\ sceneMounted
    /\ frames < MaxFrames
    /\ \E in \in AudioInputs : Animate(in)

\* the useFrame callback: skipped while the mesh is not attached
Frame ==
    /\ sceneMounted
    /\ \/ /\ ~meshRef
          /\ UNCHANGED vars
       \/ /\ meshRef
          /\ frames < MaxFrames
          /\ \E in \in AudioInputs : Animate(in)

\* the instanced mesh is created and its ref attached
AttachMesh ==
    /\ sceneMounted
    /\ ~meshRef
    /\ meshRef' = TRUE
    /\ UNCHANGED <<hookVars, appVars, animVariant, sceneMounted, elapsedTime,
                   pointer, particles, mousePos, camera, tunnel, instances,
                   dummy, color, currentMode, frames, startResult, audioData>>

\* a pointer event over the canvas updates state.pointer
PointerMove(p) ==
    /\ sceneMounted
    /\ p # pointer
    /\ pointer' = p
    /\ UNCHANGED <<hookVars, appVars, animVariant, sceneMounted, meshRef,
                   elapsedTime, particles, mousePos, camera, tunnel, instances,
                   dummy, color, currentMode, frames, startResult, audioData>>

----------------------------------------------------------------------------

Init ==
    /\ ready = FALSE
    /\ error = NoError
    /\ isSimulated = FALSE
    /\ audioContextRef = FALSE
    /\ analyserRef = NoAnalyser
    /\ dataArrayRef = NullArray
    /\ sourceRef = FALSE
    /\ simulatedTimeRef = 0
    /\ appVariant \in {"gated", "loading"}
    /\ started = FALSE
    /\ isLoading = FALSE
    /\ rendered = [ready |-> FALSE, error |-> NoError, isSimulated |-> FALSE,
                   started |-> FALSE, isLoading |-> FALSE]
    /\ calls = << >>
    /\ animVariant \in {"crystalA", "crystalB", "warp"}
    /\ sceneMounted = FALSE
    /\ meshRef = FALSE
    /\ elapsedTime = 0
    /\ pointer = [x |-> 0, y |-> 0]
    /\ particles = NewPool(animVariant, 1, 1)
    /\ mousePos = [x |-> 0, y |-> 0]
    /\ camera = [rotationZ |-> 0, fov |-> INITIAL_FOV * 1000]
    /\ tunnel = [rotationZ |-> 0, lightIntensity |-> 1000]
    /\ instances = NewInstances
    /\ dummy = NewObject3D
    /\ color = NewColor
    /\ currentMode = -1
    /\ frames = 0
    /\ startResult = NoResult
    /\ audioData = NoAudioData

NextAudio ==
    \/ ClickPlay
    \/ \E c \in 1..Len(calls), outcome \in Outcomes : StartSettle(c, outcome)
    \/ \E c \in 1..Len(calls) : HandleStartResume(c)
    \/ Render
    \/ ReadAudio

SpecAudio == Init /\ [][NextAudio]_vars

\* The App and the hook under the scheduling the runtime guarantees: the
\* continuation of a settled `await start()` is a queued microtask and is
\* run, and React renders a pending state update.
SpecAudioFair ==
    /\ Init
    /\ [][NextAudio]_vars
    /\ WF_vars(\E c \in 1..Len(calls) : HandleStartResume(c))
    /\ WF_vars(Render)

\* the hook's refs and state are those of h
Left(h) ==
    /\ audioContextRef = h.audioContextRef
    /\ analyserRef = h.analyserRef
    /\ sourceRef = h.sourceRef
    /\ dataArrayRef = h.dataArrayRef
    /\ ready = h.ready
    /\ error = h.error
    /\ isSimulated = h.isSimulated
    /\ startResult = h.result

AnimVariants == {"crystalA", "crystalB", "warp"}

\* The program once the first click's start() has settled with `outcome`,
\* handleStart has resumed and React has rendered the scene layer, for an
\* animator and the pool its useMemo created.
Mounted(outcome, variant, op, os) ==
    /\ Left(Settled(outcome, FALSE, NoAnalyser, FALSE))
    /\ simulatedTimeRef = 0
    /\ appVariant = "loading"
    /\ started = TRUE
    /\ isLoading = FALSE
    /\ rendered = Snapshot
    /\ calls = <<[phase |-> "done", error |-> NoError, result |-> startResult]>>
    /\ animVariant = variant
    /\ sceneMounted = TRUE
    /\ meshRef = FALSE
    /\ elapsedTime = 0
    /\ pointer = [x |-> 0, y |-> 0]
    /\ particles = NewPool(variant, op, os)
    /\ mousePos = [x |-> 0, y |-> 0]
    /\ camera = [rotationZ |-> 0, fov |-> INITIAL_FOV * 1000]
    /\ tunnel = [rotationZ |-> 0, lightIntensity |-> 1000]
    /\ instances = NewInstances
    /\ dummy = NewObject3D
    /\ color = NewColor
    /\ currentMode = -1
    /\ frames = 0
    /\ audioData = NoAudioData

\* the scene alone: every animator over every pool, under live and under
\* simulated audio
SceneInit ==
    \E outcome \in {"granted", "denied"}, variant \in AnimVariants,
       op \in StreamOffsets, os \in StreamOffsets :
        Mounted(outcome, variant, op, os)

NextScene ==
    \/ AttachMesh
    \/ \E p \in Pointers : PointerMove(p)
    \/ Frame

SpecScene == SceneInit /\ [][NextScene]_vars

\* an animated frame can be taken: the scene is mounted, the mesh attached
\* and the frame bound of the model not reached
FrameDue == sceneMounted /\ meshRef /\ frames < MaxFrames

\* The scene under continued frames: the mesh ref is attached when the mesh
\* is committed, and the render loop keeps calling the useFrame callback.
\* The second is weak fairness of the animated frame, written with its
\* enabling condition FrameDue: a frame that stays due is taken.
SpecSceneFair ==
    /\ SceneInit
    /\ [][NextScene]_vars
    /\ WF_vars(AttachMesh)
    /\ ([]<>~FrameDue \/ []<><<frames' = frames + 1>>_vars)

\* the simulated sampler alone, from every failed first start
SimInit ==
    \E outcome \in Outcomes \ {"granted"} : Mounted(outcome, "warp", 1, 1)

SimRead == ReadAudioUpTo(MaxSimCalls)

SpecSim == SimInit /\ [][SimRead]_vars

\* the whole program: the App, the hook and the scene
Next ==
    \/ ClickPlay
    \/ \E c \in 1..Len(calls), outcome \in Outcomes : StartSettle(c, outcome)
    \/ \E c \in 1..Len(calls) : HandleStartResume(c)
    \/ Render
    \/ AttachMesh
    \/ Frame

Spec == Init /\ [][Next]_vars

----------------------------------------------------------------------------
(* Properties *)

\* half of the tunnel length of an animator, thousandths
HalfLength(variant) ==
    IF variant = "crystalA" THEN TUNNEL_LENGTH_A * 500
    ELSE IF variant = "crystalB" THEN TUNNEL_LENGTH_B * 500
    ELSE LENGTH * 1000

Slots == 1..COUNT

\* C1: in every animator, after any sequence of frames, every particle's z
\* lies in [-L/2, L/2] for that animator's tunnel length L, whatever the audio
\* bands, the mode and the particle's speed multiplier, for frame deltas up
\* to one second.
C1_ZWithinTunnel ==
    \A k \in Slots :
        /\ 0 - HalfLength(animVariant) <= particles[k].z
        /\ particles[k].z <= HalfLength(animVariant)

\* a particle created in the near half has been carried past L/2 and put back
\* into the far half
C1_ParticleWrapped ==
    /\ frames >= 1
    /\ \E op \in StreamOffsets, os \in StreamOffsets, k \in Slots :
          LET created == NewPool(animVariant, op, os)[k]
          IN  /\ created.z > 0
              /\ particles[k].z < 0
              /\ [particles[k] EXCEPT !.z = created.z] = created

SomeStartSettled == \E c \in 1..Len(calls) : calls[c].phase # "media"

SomeStartFailed ==
    \E c \in 1..Len(calls) : calls[c].phase # "media" /\ ~calls[c].result.success

SomeStartSucceeded ==
    \E c \in 1..Len(calls) : calls[c].phase # "media" /\ calls[c].result.success

EverySlotWrittenOnce ==
    \A k \in Slots : instances[k].matrixWrites = 1 /\ instances[k].colorWrites = 1

\* C2: when the start() that settled last was denied (or failed otherwise),
\* it has left ready = true, isSimulated = true, a non-empty error message
\* and a 256-entry array; and once a start() has failed, the getAudioData()
\* of every frame returns 256 entries and the frame writes every instance
\* slot.
C2_DeniedFallsBackToSimulation ==
    /\ (SomeStartSettled /\ ~startResult.success) =>
          /\ ready
          /\ isSimulated
          /\ error \notin {NoError, ""}
          /\ Length(dataArrayRef) = SIM_BINS
    /\ (SomeStartFailed /\ frames >= 1) =>
          /\ Length(Frequency) = SIM_BINS
          /\ EverySlotWrittenOnce

\* the only start() was denied and a frame has drawn from the generator
C2_FrameAfterDenial ==
    /\ Len(calls) = 1
    /\ calls[1].phase = "done"
    /\ ~calls[1].result.success
    /\ frames >= 1
    /\ audioData.branch = "simulated"

\* indices into the 256-entry array, its two ends included
IndexSamples == {0, 10, 100, 256}

ValidIndex(i) == i >= 0 /\ i <= Length(Frequency)

\* C3: for valid indices, getAverage is a value in [0,255] and is 0 when
\* endIndex <= startIndex, for the getAverage of the live branch, of the
\* simulated branch and of the not-ready branch.
C3_AverageInRange ==
    \A startIndex \in IndexSamples, endIndex \in IndexSamples :
        (audioData.getAverage = "zero"
            \/ (ValidIndex(startIndex) /\ ValidIndex(endIndex))) =>
            LET avg == getAverage(startIndex, endIndex)
            IN  /\ avg.den > 0
                /\ 0 <= avg.num
                /\ avg.num <= 255 * avg.den
                /\ endIndex <= startIndex => avg.num = 0

\* the live analyser reports full scale and the bass average is exactly 255
C3_FullScaleAverage ==
    /\ audioData.branch = "live"
    /\ getAverage(0, 10) = [num |-> 2550, den |-> 10]
    /\ getAverage(10, 0) = Zero

\* the sum of arr over startIndex .. endIndex-1, as the size of the bag that
\* holds index i arr[i] times
SumOfEntries(arr, startIndex, endIndex) ==
    BagCardinality([i \in {j \in startIndex..(endIndex - 1) : arr[j] > 0} |-> arr[i]])

\* C4: for a non-empty valid range, getAverage(startIndex, endIndex) is the
\* sum of the entries startIndex .. endIndex-1 over endIndex - startIndex.
C4_AverageIsMean ==
    audioData.getAverage = "mean" =>
        \A startIndex \in IndexSamples, endIndex \in IndexSamples :
            (startIndex < endIndex /\ ValidIndex(endIndex)) =>
                LET avg == getAverage(startIndex, endIndex)
                IN  /\ avg.den = endIndex - startIndex
                    /\ avg.num = SumOfEntries(dataArrayRef, startIndex, endIndex)

\* getAverage(0, 10) over 10, 20, ..., 100 is 55
C4_MeanOfRamp ==
    /\ audioData.branch = "live"
    /\ \A i \in 0..9 : dataArrayRef[i] = 10 * (i + 1)
    /\ getAverage(0, 10) = [num |-> 550, den |-> 10]

\* C5: after every frame that was not skipped, every instance slot
\* 0 .. COUNT-1 has had its transform and its colour written exactly once,
\* with the z of its particle; the pool and the buffer always have COUNT
\* entries.
C5_EverySlotOncePerFrame ==
    /\ DOMAIN particles = Slots
    /\ DOMAIN instances = Slots
    /\ frames >= 1 =>
          /\ EverySlotWrittenOnce
          /\ \A k \in Slots : instances[k].z = particles[k].z

\* two frames have run and the second one, in the third mode, wrote the slots
C5_SecondFrameWritten ==
    /\ frames >= 2
    /\ currentMode = 2
    /\ EverySlotWrittenOnce

\* C6: the mode of the last frame is one of 0, 1, 2 and is the position in
\* the three-mode cycle of the 20-second window that holds the elapsed time,
\* whatever frames, audio data and pointer input came before.
C6_ModeFromElapsedTime ==
    (animVariant = "crystalA" /\ frames >= 1) =>
        /\ currentMode \in 0..(NUM_MODES - 1)
        /\ \E window \in 0..(elapsedTime \div (CYCLE_DURATION * 1000)) :
              /\ window * CYCLE_DURATION * 1000 <= elapsedTime
              /\ elapsedTime < (window + 1) * CYCLE_DURATION * 1000
              /\ currentMode = window % NUM_MODES

\* the second mode was selected after the pointer moved, under simulated audio
C6_SecondModeAfterInput ==
    /\ animVariant = "crystalA"
    /\ frames >= 2
    /\ currentMode = 1
    /\ pointer # [x |-> 0, y |-> 0]
    /\ audioData.branch = "simulated"

EmptyResult ==
    /\ audioData.getAverage = "zero"
    /\ Length(Frequency) = 0
    /\ ~audioData.analyser.node

\* C7 as stated: while no start() has succeeded, getAudioData() has returned
\* a zero-length array, a null analyser and a constant-zero getAverage.
C7_EmptyBeforeSuccess ==
    (audioData.branch # "none" /\ ~SomeStartSucceeded) => EmptyResult

ArgumentSamples == {-1, 0, 10, 300}

\* C7: while no start() call has settled, getAudioData() has returned a
\* zero-length array, a null analyser and a getAverage that is 0 for every
\* pair of arguments.
C7_EmptyBeforeAnyStartSettles ==
    (audioData.branch # "none" /\ ~SomeStartSettled) =>
        /\ EmptyResult
        /\ \A startIndex \in ArgumentSamples, endIndex \in ArgumentSamples :
              getAverage(startIndex, endIndex) = Zero

\* getAudioData() was called while the capture request was pending
C7_QueriedWhilePending ==
    /\ Len(calls) >= 1
    /\ ~SomeStartSettled
    /\ audioData.branch = "notReady"

\* C8 as stated: the start() that settled last succeeded => ready, not
\* simulated, no error, an analyser of size 512 with 256 bins and smoothing
\* 0.8 and an array of the bin count; and once a start() has succeeded, every
\* frame's getAudioData() (through an up-to-date closure) returns that
\* analyser and that array.
C8_LiveAfterSuccess ==
    /\ [](startResult.success =>
            /\ ready
            /\ ~isSimulated
            /\ error = NoError
            /\ analyserRef = [node |-> TRUE, fftSize |-> 512,
                              smoothingTenths |-> 8, frequencyBinCount |-> 256]
            /\ Length(dataArrayRef) = analyserRef.frequencyBinCount)
    /\ [][(SomeStartSucceeded /\ rendered = Snapshot /\ frames' = frames + 1) =>
            /\ audioData'.analyser = analyserRef
            /\ audioData'.analyser.node
            /\ audioData'.frequency = "dataArrayRef"
            /\ Length(dataArrayRef') = analyserRef.frequencyBinCount]_vars

\* C9 as stated: once ready is true, no step changes isSimulated.
C9_ModeHeld == [][ready => isSimulated' = isSimulated]_vars

\* C10: in simulated mode every entry of the array is in [0,255], and it is
\* not below the clamped wave of its bin (the sum saturates at 255 instead of
\* wrapping), for every call count, bin, noise draw and beat state.
C10_SimulatedInRange ==
    audioData.branch = "simulated" =>
        \A i \in DOMAIN dataArrayRef :
            /\ dataArrayRef[i] \in 0..255
            /\ dataArrayRef[i] >= Min(255, BandValue(i, simulatedTimeRef, 0) \div 1000)

\* the beat is active and a bass bin is saturated
C10_SaturatedOnBeat ==
    /\ audioData.branch = "simulated"
    /\ Beat(simulatedTimeRef) > 0
    /\ \E i \in 0..19 : dataArrayRef[i] = 255

\* C11: while the instanced mesh is not attached, no step (so no frame
\* callback) changes a particle, an instance slot, the smoothed cursor, the
\* camera, the rotation or the light, and none calls getAudioData(): the
\* array, the returned AudioData and the simulated-time counter stay as
\* they are.
C11_SkippedFrameIsNoOp ==
    [][~meshRef =>
          UNCHANGED <<particles, instances, dummy, color, mousePos, camera, tunnel,
                      currentMode, frames, simulatedTimeRef, dataArrayRef,
                      audioData>>]_vars

\* frame callbacks run into the guard in simulated mode, the pointer
\* already away from the centre
C11_GuardedWhileSimulated ==
    /\ sceneMounted
    /\ ~meshRef
    /\ Branch = "simulated"
    /\ pointer # [x |-> 0, y |-> 0]

\* the loop run over the particles in the order given (a permutation of the
\* slots)
RECURSIVE LoopOver(_, _, _, _, _)
LoopOver(order, k, variant, st, c) ==
    IF k <= COUNT
    THEN LoopOver(order, k + 1, variant, LoopBody(order[k] - 1, variant, st, c), c)
    ELSE st

\* shared inputs a next frame may have: clock step, band averages, draw
SampleContexts ==
    {FrameContext(d, elapsedTime + d, bands, Intensity(bands[1], bands[2]),
                  ModeIndex(elapsedTime + d), spark) :
        d \in ClockSteps, bands \in {<<0, 0, 0>>, <<1000, 500, 200>>},
        spark \in DrawSet}

SameResult(a, b) == a.pool = b.pool /\ a.inst = b.inst

\* C12: from every reachable pool, buffer and scratch objects, and for
\* every shared input, the loop run over the particles in any order leaves
\* the same particle array and the same instance buffer as the loop run in
\* index order.
C12_OrderIndependent ==
    \A c \in SampleContexts, order \in Permutations(Slots) :
        SameResult(LoopOver(order, 1, animVariant,
                            LoopState(particles, BeginFrame(instances),
                                      Scratch(dummy, FrameColor)), c),
                   ParticleLoop(0, animVariant,
                                LoopState(particles, BeginFrame(instances),
                                          Scratch(dummy, FrameColor)), c))

\* a frame has written different transforms and colours for two particles
C12_ParticlesDiffer ==
    /\ frames >= 1
    /\ instances[1].matrix.position # instances[2].matrix.position
    /\ instances[1].matrix.scale # NewObject3D.scale
    /\ instances[1].color # instances[2].color

\* the values a frame with this step's inputs computes from newly created
\* objects (mousePos 0, camera roll 0 and fov 90, mesh rotation 0)
FreshMouse ==
    IF animVariant = "crystalA"
    THEN [x |-> Lerp(0, pointer.x * 30, 5), y |-> Lerp(0, pointer.y * 30, 5)]
    ELSE IF animVariant = "crystalB"
    THEN [x |-> Lerp(0, pointer.x * 5, 5), y |-> Lerp(0, pointer.y * 5, 5)]
    ELSE mousePos

FreshCamera(bass) ==
    IF animVariant = "crystalA"
    THEN [rotationZ |-> Lerp(0, 0 - (pointer.x * 2) \div 10, 5),
          fov |-> Lerp(INITIAL_FOV * 1000, INITIAL_FOV * 1000 + bass * 10, 10)]
    ELSE camera

FreshRotation(d, intensity) ==
    IF animVariant = "warp" THEN (d * (1000 + intensity)) \div 10000
    ELSE tunnel.rotationZ

\* C13 as stated: a frame's results outside the particles are those it
\* would compute from newly created objects; nothing but the particles'
\* scalars is carried from the frames before.
C13_OnlyParticlesCarried ==
    [][frames' = frames + 1 =>
          /\ mousePos' = FreshMouse
          /\ camera' = FreshCamera(Normalized(FrameAverage(0, 10)))
          /\ tunnel'.rotationZ =
                FreshRotation(elapsedTime' - elapsedTime,
                              Intensity(Normalized(FrameAverage(0, 10)),
                                        Normalized(FrameAverage(10, 100))))]_vars

SameButZ(p, q) == [p EXCEPT !.z = q.z] = q

\* C13: a frame carries the particles' scalars, the smoothed cursor, the
\* camera roll and fov, the mesh rotation and, through its getAudioData()
\* call, the sampler's array and simulated-time counter, and nothing else:
\* it changes no other state of the sampler or the App and of a particle
\* only z, and the particle array and instance buffer it produces do not
\* depend on the buffer and the scratch objects the frame before left.
C13_CarriedState ==
    /\ [](\A c \in SampleContexts :
            SameResult(ParticleLoop(0, animVariant,
                                    LoopState(particles, BeginFrame(instances),
                                              Scratch(dummy, FrameColor)), c),
                       ParticleLoop(0, animVariant,
                                    LoopState(particles, NewInstances,
                                              Scratch(NewObject3D, NewColor)), c)))
    /\ [][frames' = frames + 1 =>
            /\ UNCHANGED <<ready, error, isSimulated, audioContextRef,
                           analyserRef, sourceRef, startResult, appVars,
                           animVariant, sceneMounted, meshRef, pointer>>
            /\ simulatedTimeRef' \in {simulatedTimeRef, simulatedTimeRef + SIM_STEP_MS}
            /\ \A k \in Slots : SameButZ(particles[k], particles'[k])]_vars

\* a second frame has smoothed the cursor further and advanced the
\* simulated-time counter again
C13_SecondFrameAccumulated ==
    /\ frames >= 2
    /\ mousePos # [x |-> 0, y |-> 0]
    /\ mousePos # FreshMouse
    /\ simulatedTimeRef = 2 * SIM_STEP_MS

\* C14: the simulated-time counter starts at 0; a getAudioData() call that
\* takes the simulated branch adds exactly one step (0.016 s) to it; a call
\* in live mode or before start, and every other step of the program (a
\* click, a start() settling, a render), leaves it as it is, so it never
\* decreases and is never reset.  In the whole program the calls are those
\* of the animated frames.
C14_SimulatedTimeAdvances ==
    /\ simulatedTimeRef = 0
    /\ [][IF frames' = frames + 1 /\ Branch = "simulated"
          THEN simulatedTimeRef' = simulatedTimeRef + SIM_STEP_MS
          ELSE simulatedTimeRef' = simulatedTimeRef]_vars

\* a simulated call advanced the counter, then a second start() succeeded
\* and a live call followed
C14_LiveCallAfterSimulated ==
    /\ simulatedTimeRef = SIM_STEP_MS
    /\ frames = 2
    /\ Len(calls) = 2
    /\ audioData.branch = "live"

SomeStartResolved == \E c \in 1..Len(calls) : calls[c].phase = "resume"

\* C15: once the start() of a click has resolved, granted or not, the App
\* sets started, ready is true as well, and the scene comes to be shown, in
\* the variant with the loading flag and in the one that sets started only
\* if the error value read in handleStart is empty.
C15_SceneEventuallyShown ==
    SomeStartResolved ~> (started /\ ready /\ sceneMounted)

\* the gated App shows the scene after a start() that fell back to
\* simulation
C15_ShownAfterDenialWhenGated ==
    /\ appVariant = "gated"
    /\ Len(calls) = 1
    /\ calls[1].phase = "done"
    /\ ~calls[1].result.success
    /\ error = SimulatedError
    /\ sceneMounted

\* C16: a capture request (a call waiting in getUserMedia) comes into being
\* only as the one request of a new handleStart invocation, in a step that
\* is the click and neither a frame, a getAudioData() call nor a start()
\* settling; a call whose request has ended, failed or not, never waits in
\* getUserMedia again.
C16_OneRequestPerClick ==
    [][/\ Len(calls') \in {Len(calls), Len(calls) + 1}
       /\ \A c \in 1..Len(calls) :
             calls[c].phase # "media" => calls'[c].phase # "media"
       /\ Len(calls') = Len(calls) + 1 =>
             /\ calls'[Len(calls')].phase = "media"
             /\ UNCHANGED <<hookVars, sceneVars, started, startResult, audioData>>]_vars

\* the only request failed, and two frames sampled simulated audio since
C16_FramesAfterFailedRequest ==
    /\ Len(calls) = 1
    /\ calls[1].phase = "done"
    /\ ~calls[1].result.success
    /\ frames = 2
    /\ audioData.branch = "simulated"

\* ten times the sum of bins 0..9 less the sum of bins 100..199, i.e. a
\* hundred times getAverage(0, 10) - getAverage(100, 200), of the array in arr
BassOverHigh(arr) == 10 * SumLoop(arr, 0, 10) - SumLoop(arr, 100, 200)

\* the same difference for the k-th simulated call when every
\* Math.random() draw of a bass bin is the least and of a high bin the
\* greatest: no draws give a smaller one
LeastBassOverHigh ==
    [k \in 1..MaxSimCalls |->
        10 * SumLoop(SynthesizeWith(NewUint8Array(SIM_BINS), k * SIM_STEP_MS,
                                    0, 0, Beat(k * SIM_STEP_MS)), 0, 10)
        - SumLoop(SynthesizeWith(NewUint8Array(SIM_BINS), k * SIM_STEP_MS,
                                 999, 999, Beat(k * SIM_STEP_MS)), 100, 200)]

SimulatedCalls == simulatedTimeRef \div SIM_STEP_MS

\* C17: over the simulated samples taken so far, however many, the mean of
\* getAverage(0, 10) is higher than the mean of getAverage(100, 200): the
\* differences of the two, summed over the earlier calls under the draws
\* least favourable to the bass range and the call that returned last,
\* are positive.
C17_BassAboveHighOverSamples ==
    (audioData.branch = "simulated" /\ SimulatedCalls >= 1) =>
        SumLoop(LeastBassOverHigh, 1, SimulatedCalls) + BassOverHigh(dataArrayRef) > 0

\* sampling has gone on into the trough of the bass wave, where the sample
\* returned last has the lower mean in the bass range
C17_SampledThroughTrough ==
    /\ audioData.branch = "simulated"
    /\ SimulatedCalls >= 140
    /\ BassOverHigh(dataArrayRef) < 0

\* C18: a start() whose awaited part ends in an exception (the capture
\* request, the context, the analyser or the source connection) returns
\* success = false with a message and leaves ready and isSimulated true and
\* an error set; and whenever the rendered sampler is in simulated mode the
\* next getAudioData() call takes the simulated branch, analyser stored or
\* not.
C18_FailedStartFallsBack ==
    /\ [](rendered.isSimulated => Branch = "simulated")
    /\ [][\A c \in 1..Len(calls) :
            (calls[c].phase = "media" /\ calls'[c].phase = "resume"
                /\ ~calls'[c].result.success) =>
                /\ calls'[c].result.errorMessage # NoError
                /\ startResult' = calls'[c].result
                /\ ready' /\ isSimulated'
                /\ error' # NoError
                /\ dataArrayRef' = NewUint8Array(SIM_BINS)]_vars

\* createMediaStreamSource threw after the analyser had been stored, and a
\* getAudioData() call returned simulated data
C18_SimulatedWithAnalyserStored ==
    /\ Len(calls) = 1
    /\ ~calls[1].result.success
    /\ calls[1].phase # "media"
    /\ analyserRef.node
    /\ audioData.branch = "simulated"
    /\ simulatedTimeRef > 0

\* the handleStart invocations that have not run to their end: start() is
\* awaiting the capture request, or has resolved and the continuation is due
Unfinished == {c \in 1..Len(calls) : calls[c].phase # "done"}

\* C19: in the App with the loading flag at most one handleStart invocation
\* is under way at any time, so at most one start() call is in flight; the
\* button is rendered disabled from the click until the render that follows
\* the end of handleStart.
C19_OneStartInFlight ==
    appVariant = "loading" =>
        /\ Cardinality(Unfinished) <= 1
        /\ Unfinished # {} => (isLoading /\ rendered.isLoading)

\* a second click was taken after the first handleStart had finished, and
\* its start() is awaiting the capture request
C19_SecondClickAfterFirstFinished ==
    /\ appVariant = "loading"
    /\ Len(calls) = 2
    /\ calls[1].phase = "done"
    /\ calls[2].phase = "media"

\* the least z advance of a frame whose clock step is d: the least speed
\* (15 in DIAMOND_CAVE, 20 after the intro, 20 at no intensity) times the
\* least speed multiplier (0.5) times the time step
MinStep(d) ==
    IF animVariant = "crystalA" THEN 120
    ELSE IF animVariant = "crystalB" THEN 160
    ELSE 10 * d

\* the greatest z advance of a frame whose clock step is d: the greatest
\* speed (110 in COSMIC_WARP, 170 at the start of the intro, 170 at full
\* intensity) times the greatest speed multiplier (2, 1.5, 1) times the step
MaxStep(d) ==
    IF animVariant = "crystalA" THEN 3520
    ELSE IF animVariant = "crystalB" THEN 4080
    ELSE 170 * d

Advanced(k, d) == particles'[k].z >= particles[k].z + MinStep(d)

Wrapped(k, d) ==
    /\ particles'[k].z + 2 * HalfLength(animVariant) >= particles[k].z + MinStep(d)
    /\ particles'[k].z + 2 * HalfLength(animVariant) <= particles[k].z + MaxStep(d)
    /\ particles'[k].z + 2 * HalfLength(animVariant) > HalfLength(animVariant)
    /\ particles'[k].z <= HalfLength(animVariant)

\* the next frame carries particle k past the far bound whatever its inputs
AtFarBound(k) == particles[k].z > HalfLength(animVariant) - MinStep(FRAME_STEP_MS)

SpeedContexts ==
    {FrameContext(d, t, bands, Intensity(bands[1], bands[2]), ModeIndex(t), 0) :
        d \in {0} \cup FrameDeltas,
        t \in {0, 2000, INTRO_DURATION * 1000, CYCLE_DURATION * 1000,
               2 * CYCLE_DURATION * 1000},
        bands \in {<<0, 0, 0>>, <<1000, 0, 0>>, <<0, 1000, 0>>, <<1000, 1000, 1000>>}}

\* the speed the z update of a frame multiplies, and the particle's multiplier
FrameSpeed(c) ==
    IF animVariant = "crystalA" THEN SpeedA(c.mode, c.bass, c.mids)
    ELSE IF animVariant = "crystalB" THEN BaseSpeedB(c.time, c.bass)
    ELSE BaseSpeedW(c.intensity)

Multiplier(p) ==
    IF animVariant = "crystalA" THEN p.speedOffset
    ELSE IF animVariant = "crystalB" THEN p.speedSpeed
    ELSE p.speedMod

\* z went from `from` to `to` without decreasing, or decreased by being
\* carried past the far bound, by no more than the greatest step, and put
\* back by the tunnel length
ForwardOrWrapped(from, to, d) ==
    \/ to >= from
    \/ /\ to + 2 * HalfLength(animVariant) >= from
       /\ to + 2 * HalfLength(animVariant) <= from + MaxStep(d)
       /\ to + 2 * HalfLength(animVariant) > HalfLength(animVariant)

\* C21: in every animator, mode and intro phase, for bands from silence to
\* full scale and frame deltas from 0 up, the speed applied to a particle is
\* not negative; so a frame leaves a particle's z where it is or moves it
\* forward, except in the step that wraps it from the far bound, and z never
\* falls below the near bound.
C21_SpeedNeverNegative ==
    /\ [](\A k \in Slots, c \in SpeedContexts :
            /\ FrameSpeed(c) >= 0
            /\ Multiplier(particles[k]) >= 0
            /\ ForwardOrWrapped(particles[k].z, MoveZ(animVariant, particles[k], c), c.delta)
            /\ MoveZ(animVariant, particles[k], c) >= 0 - HalfLength(animVariant))
    /\ [][frames' = frames + 1 =>
            \A k \in Slots :
                /\ ForwardOrWrapped(particles[k].z, particles'[k].z, elapsedTime' - elapsedTime)
                /\ particles'[k].z >= 0 - HalfLength(animVariant)]_vars

\* a frame after the intro, in silence, has moved a particle of the
\* 8000-particle CrystalUniverse forward at cruise speed
C21_CruiseInSilence ==
    /\ animVariant = "crystalB"
    /\ frames = 1
    /\ elapsedTime >= INTRO_DURATION * 1000
    /\ audioData.branch = "live"
    /\ getAverage(0, 10) = [num |-> 0, den |-> 10]
    /\ \E op \in StreamOffsets, os \in StreamOffsets, k \in Slots :
          LET created == NewPool(animVariant, op, os)
          IN  /\ \A n \in Slots : [particles[n] EXCEPT !.z = created[n].z] = created[n]
              /\ particles[k].z > created[k].z

\* the pools useMemo can have created for this animator
CreatedPools == {NewPool(animVariant, op, os) : op \in StreamOffsets, os \in StreamOffsets}

\* pool is `created` with nothing but z changed
SameButZOf(pool, created) ==
    /\ DOMAIN pool = DOMAIN created
    /\ \A n \in DOMAIN created : [pool[n] EXCEPT !.z = created[n].z] = created[n]

\* the magnitude array a getAudioData() call with inputs `in` leaves
SampledArray(in) ==
    IF Branch = "simulated"
    THEN Synthesize(dataArrayRef, simulatedTimeRef + SIM_STEP_MS, in[1], in[2])
    ELSE IF Branch = "live"
    THEN GetByteFrequencyData(dataArrayRef, in[3], in[4])
    ELSE dataArrayRef

\* C22: after any sequence of frames the particle array is a created pool
\* with nothing but z changed (angle/theta, radius or x/y, speed multiplier,
\* rotation speed, colour phase, originalZ and id are as at mount), a frame
\* changes of a particle only z, and the magnitude array after a frame is
\* what the sampler's getAudioData() call wrote: the frame itself writes
\* nothing to it.
C22_OnlyZMutated ==
    /\ [](\E created \in CreatedPools : SameButZOf(particles, created))
    /\ [][frames' = frames + 1 =>
            /\ \A k \in Slots : [particles'[k] EXCEPT !.z = particles[k].z] = particles[k]
            /\ \E in \in AudioInputs : dataArrayRef' = SampledArray(in)]_vars

\* two frames under simulated audio have moved every particle from where it
\* was created and refilled the magnitude array
C22_EveryParticleMoved ==
    /\ frames = MaxFrames
    /\ audioData.branch = "simulated"
    /\ dataArrayRef # NewUint8Array(SIM_BINS)
    /\ \E created \in CreatedPools :
          /\ SameButZOf(particles, created)
          /\ \A k \in Slots : particles[k].z # created[k].z

====
